---- MODULE Spec2Model ----
(***************************************************************************)
(* A model of Syndi's feed resolution and aggregation pipeline             *)
(* (src/core/Utilities.ts, src/core/Remote.ts).                            *)
(*                                                                         *)
(* Text is a sequence of one-character strings.  The character "U00E9"     *)
(* stands for a character that is one UTF-16 code unit and two UTF-8       *)
(* bytes; "UFFFD" is the replacement character a decoder emits for a       *)
(* broken byte sequence.                                                   *)
(*                                                                         *)
(* A Location is a record [abs, depth, file]: all locations of the model   *)
(* live on one chain of directories below one origin, depth is the number  *)
(* of directory segments and file the name after the last "/".             *)
(***************************************************************************)
EXTENDS Integers, Sequences, FiniteSets, TLC

\* ------------------------------------------------------------------ bounds
MaxBody == 5
MaxGrow == 2
MaxLines == 3
MaxRequests == 4
MaxItems == 2
MaxCalls == 2
MaxDepth == 1
MaxMarkers == 3
MaxHead == 3
MaxEdits == 2
MaxNodes == 2

\* -------------------------------------------------------------------- text
Chars == {"a", "#", " ", "\n", "U00E9"}

WhiteSpace == {" ", "\n"}

Texts(n) == UNION {[1..k -> Chars] : k \in 0..n}

Tail2(s) == SubSeq(s, 3, Len(s))

\* String.prototype.split("\n")
RECURSIVE SplitLines(_)
SplitLines(s) ==
  IF \A k \in 1..Len(s) : s[k] # "\n"
  THEN <<s>>
  ELSE LET p == CHOOSE k \in 1..Len(s) :
                  s[k] = "\n" /\ \A j \in 1..(k - 1) : s[j] # "\n"
       IN <<SubSeq(s, 1, p - 1)>> \o SplitLines(SubSeq(s, p + 1, Len(s)))

RECURSIVE TrimStart(_)
TrimStart(s) ==
  IF s # <<>> /\ Head(s) \in WhiteSpace THEN TrimStart(Tail(s)) ELSE s

RECURSIVE TrimEnd(_)
TrimEnd(s) ==
  IF s # <<>> /\ s[Len(s)] \in WhiteSpace
  THEN TrimEnd(SubSeq(s, 1, Len(s) - 1))
  ELSE s

\* String.prototype.trim()
Trim(s) == TrimEnd(TrimStart(s))

\* String.prototype.startsWith(c)
StartsWith(s, c) == s # <<>> /\ Head(s) = c

IsNonEmpty(s) == s # <<>>

IsNotComment(s) == ~StartsWith(s, "#")

\* String.prototype.length: the number of UTF-16 code units
StrLength(s) == Len(s)

\* ------------------------------------------------------------------- bytes
\* The UTF-8 encoding of one character.
Utf8Char(c) == IF c = "U00E9" THEN <<"C3", "A9">> ELSE <<c>>

RECURSIVE Utf8Encode(_)
Utf8Encode(s) ==
  IF s = <<>> THEN <<>> ELSE Utf8Char(Head(s)) \o Utf8Encode(Tail(s))

\* Response.text(): UTF-8 decoding, a broken sequence gives U+FFFD.
RECURSIVE Utf8Decode(_)
Utf8Decode(b) ==
  IF b = <<>> THEN <<>>
  ELSE IF Head(b) = "C3" /\ Len(b) >= 2 /\ b[2] = "A9"
       THEN <<"U00E9">> \o Utf8Decode(Tail2(b))
  ELSE IF Head(b) \in {"C3", "A9"}
       THEN <<"UFFFD">> \o Utf8Decode(Tail(b))
  ELSE <<Head(b)>> \o Utf8Decode(Tail(b))

\* --------------------------------------------------------------- locations
Abs(d, f) == [abs |-> TRUE, depth |-> d, file |-> f]

Rel(path) == [abs |-> FALSE, depth |-> 0, file |-> path]

\* Url.folderOf: the directory that contains the location.
FolderOf(url) == Abs(url.depth, <<>>)

\* Url.resolve: an absolute reference is kept, a relative one is placed in
\* the directory of the base.
Resolve(ref, base) == IF ref.abs THEN ref ELSE Abs(base.depth, ref.file)

\* Url.getCurrent: the location of the host page.
CurrentUrl == Abs(0, <<"p">>)

\* ------------------------------------------------------------- documents
\* An element: its node name, its attributes (a record: an attribute is
\* present when its name is a field) and its child elements.
Elem(name, attrs, kids) == [name |-> name, attrs |-> attrs, kids |-> kids]

NoAttrs == <<>>

HasAttr(e, a) == a \in DOMAIN e.attrs

\* getAttribute(a) || "": the empty reference when the attribute is absent.
RefAttr(e, a) == IF HasAttr(e, a) THEN e.attrs[a] ELSE Rel(<<>>)

\* A reference is the empty string.
IsEmptyRef(r) == ~r.abs /\ r.file = <<>>

\* String.prototype.toLowerCase, on the attribute values of the model.
ToLower(v) ==
  CASE v = "TRUE" -> "true"
    [] v = "False" -> "false"
    [] v = "Text/Feed" -> "text/feed"
    [] OTHER -> v

\* querySelectorAll("*"): the elements below, in document order.
RECURSIVE Descendants(_)
Descendants(elems) ==
  IF elems = <<>> THEN <<>>
  ELSE <<Head(elems)>> \o Descendants(Head(elems).kids)
         \o Descendants(Tail(elems))

\* The elements of the Reel documents of the model.
ImgEl == Elem("IMG", [src |-> Rel(<<"p">>)], <<>>)

SectionImg == Elem("SECTION", [id |-> "s1"], <<ImgEl>>)

SectionText == Elem("SECTION", [id |-> "s2"], <<>>)

DivEl == Elem("DIV", NoAttrs, <<>>)

LinkCss == Elem("LINK", [rel |-> "stylesheet", href |-> Rel(<<"c">>)], <<>>)

LinkFeed == Elem("LINK", [rel |-> "feed", href |-> Rel(<<"f">>)], <<>>)

StyleEl == Elem("STYLE", NoAttrs, <<>>)

\* What a Reel location gives once fetched and sanitized: no document, or
\* the document the sanitizer returns.
NoDoc == [ok |-> FALSE, head |-> <<>>, body |-> <<>>]

Doc(head, body) == [ok |-> TRUE, head |-> head, body |-> body]

ReelDocs ==
  { Doc(<<LinkCss>>, <<DivEl>>),
    Doc(<<LinkCss, LinkFeed>>, <<SectionImg>>),
    Doc(<<StyleEl>>, <<SectionImg, DivEl, SectionText>>) }

ReelOutcomes == {NoDoc} \cup ReelDocs

\* The four attributes that bear references.
AttrNames == {"href", "src", "action", "data-src"}

\* ForeignDocumentSanitizer(text, docUri).read(), on the elements of the
\* document: the references of every element are made absolute against
\* docUri, the resolution boundary.
RECURSIVE SanitizeAll(_, _)
SanitizeAll(elems, docUri) ==
  [k \in 1..Len(elems) |->
     LET e == elems[k]
     IN [name |-> e.name,
         attrs |-> [a \in DOMAIN e.attrs |->
                      IF a \in AttrNames THEN Resolve(e.attrs[a], docUri)
                      ELSE e.attrs[a]],
         kids |-> SanitizeAll(e.kids, docUri)]]

\* DocUri taken from the host page: Url.folderOf(Url.getCurrent())
DocUriOfPage(url) == FolderOf(CurrentUrl)

\* const docUri = Url.folderOf(url)
DocUri(url) == FolderOf(url)

\* getDocumentFromUrl: null when the fetch failed, else the sanitized
\* document.  The outcome is what the location serves.
GetDocumentFromUrl(url, outcome) ==
  IF ~outcome.ok THEN NoDoc
  ELSE Doc(SanitizeAll(outcome.head, DocUri(url)),
           SanitizeAll(outcome.body, DocUri(url)))

\* Syndi.getStandardCss: the base stylesheet of a sandbox.
StandardCss == Elem("STYLE", [id |-> "standard-css"], <<>>)

\* getErrorPoster
ErrorPoster == Elem("DIV", [style |-> "error-poster"], <<>>)

\* null, where an element is expected
NullElem == Elem("#null", NoAttrs, <<>>)

IsNull(e) == e.name = "#null"

\* One feed declaration: { visible, subscribable, href }.
FeedInfo(e) ==
  [visible |-> HasAttr(e, "disabled") /\ ToLower(e.attrs.disabled) # "false",
   subscribable |-> HasAttr(e, "type") /\ ToLower(e.attrs.type) = "text/feed",
   href |-> e.attrs.href]

IsFeedLink(e) ==
  /\ e.name = "LINK"
  /\ HasAttr(e, "rel") /\ e.attrs.rel = "feed"
  /\ HasAttr(e, "href") /\ ~IsEmptyRef(e.attrs.href)

\* getFeedsFromDocument
GetFeedsFromDocument(doc) ==
  LET fe == SelectSeq(Descendants(doc.head \o doc.body), IsFeedLink)
  IN [k \in 1..Len(fe) |-> FeedInfo(fe[k])]

IsSection(e) == e.name = "SECTION"

IsLinkOrStyle(e) == e.name \in {"LINK", "STYLE"}

\* IsAsset without the filter: every LINK and STYLE of the head is kept.
IsAnyNode(e, feedsUrls) == TRUE

\* e => !feedsUrls.includes(e.getAttribute("href") || "")
IsAsset(e, feedsUrls) == RefAttr(e, "href") \notin feedsUrls

\* getReelFromUrl
GetReelFromUrl(url, outcome) ==
  LET doc == GetDocumentFromUrl(url, outcome)
      feeds == GetFeedsFromDocument(doc)
      feedsUrls == {feeds[k].href : k \in 1..Len(feeds)}
      NotFeed(e) == IsAsset(e, feedsUrls)
  IN IF ~doc.ok
     THEN [ok |-> FALSE, url |-> url, head |-> <<>>, feeds |-> <<>>,
           sections |-> <<>>]
     ELSE [ok |-> TRUE, url |-> url,
           head |-> SelectSeq(SelectSeq(Descendants(doc.head), IsLinkOrStyle),
                              NotFeed),
           feeds |-> feeds,
           sections |-> SelectSeq(doc.body, IsSection)]

\* --------------------------------------------------------------- isolation
\* "LINK[href], A[href], IMG[src], FORM[action], SCRIPT[src]"
MatchesSel(e) ==
  \/ e.name = "LINK" /\ HasAttr(e, "href")
  \/ e.name = "A" /\ HasAttr(e, "href")
  \/ e.name = "IMG" /\ HasAttr(e, "src")
  \/ e.name = "FORM" /\ HasAttr(e, "action")
  \/ e.name = "SCRIPT" /\ HasAttr(e, "src")

\* The loop over the matched elements of the shadow root: each of the four
\* attributes a matched element carries is resolved against the base.
RECURSIVE RewriteAll(_, _)
RewriteAll(elems, base) ==
  [k \in 1..Len(elems) |->
     LET e == elems[k]
     IN [name |-> e.name,
         attrs |-> IF MatchesSel(e)
                   THEN [a \in DOMAIN e.attrs |->
                           IF a \in AttrNames
                           THEN Resolve(e.attrs[a], base)
                           ELSE e.attrs[a]]
                   ELSE e.attrs,
         kids |-> RewriteAll(e.kids, base)]]

\* getSandboxedElement: a <div> whose shadow root holds the standard css,
\* the LINK and STYLE elements, then the SECTION elements.
GetSandboxedElement(contents, baseUrl) ==
  LET head == <<StandardCss>> \o SelectSeq(contents, IsLinkOrStyle)
      body == SelectSeq(contents, IsSection)
  IN [name |-> "DIV", attrs |-> NoAttrs, kids |-> <<>>,
      shadow |-> RewriteAll(head \o body, FolderOf(baseUrl))]

\* reel?.sections.length ? getSandboxedElement([...head, sections[0]]) : null
PosterOf(reel) ==
  IF reel.ok /\ Len(reel.sections) # 0
  THEN GetSandboxedElement(reel.head \o <<reel.sections[1]>>, reel.url)
  ELSE NullElem

\* getPosterFromUrl
GetPosterFromUrl(reelUrl, outcome) == PosterOf(GetReelFromUrl(reelUrl, outcome))

\* ------------------------------------------------------------------- state
VARIABLES
  feedUrl,      \* the location of the feed resource
  netOk,        \* whether the feed's server answers with a success status
  contentType,  \* the feed response's Content-Type header
  resource,     \* the text of the feed resource on the server
  feedCalls,    \* the calls of getFeedFromUrl made so far, with results
  growth,       \* the texts appended to the feed resource so far
  reelAt,       \* what each Reel location gives when fetched
  genPc,        \* where the generator of getPostersFromFeed stands
  genUrls,      \* its readResult.urls
  genI,         \* the index (from 1) of the listing item it is at
  queue,        \* the next() requests of the consumer not yet answered
  requests,     \* the next() requests the consumer has made
  delivered,    \* the results the consumer's requests resolved with
  fetchLog,     \* the Reel fetches the generator issued
  inFlight,     \* the Reel fetches of the generator in flight
  provUrls,     \* the urls getOmniviewFromFeed was given
  provCalls,    \* the calls of getPoster and fillBody, with their outcomes
  provFetches,  \* the Reel fetches those calls issued
  dirDoc,       \* what the index of each directory near the origin gives
  deepDoc,      \* what the index of every directory further down gives
  currentUrl,   \* getFeedMetaData's currentUrl
  safety,       \* its loop counter
  metaPc,       \* where the call of getFeedMetaData stands
  metaResult,   \* what it returned
  metaLog,      \* the depths of the directories it fetched, in order
  reelCalls,    \* the calls of getReelFromUrl made on their own, with results
  nodes,        \* the element nodes that exist, by identity, with their subtrees
  srcDoc,       \* the nodes that are children of the source document's head and body
  isoCalls,     \* the calls of getSandboxedElement made on their own
  edits,        \* the changes made to nodes after such a call
  documentUrl,  \* the documentUrl given to resolveRemoteSections
  container,    \* the element tree of the container it was given
  remStart,     \* that tree when resolveRemoteSections was called
  remSections,  \* its remoteSections
  remI,         \* the index (from 1) of the remote section it is at
  remPc,        \* where the call of resolveRemoteSections stands
  remFetches,   \* the poster fetches it issued
  remInFlight   \* the poster fetches of it in flight

feedVars == <<feedUrl, netOk, contentType, resource, feedCalls, growth>>

genVars == <<genPc, genUrls, genI, queue, requests, delivered, fetchLog,
             inFlight>>

provVars == <<provUrls, provCalls, provFetches>>

metaVars == <<dirDoc, deepDoc, currentUrl, safety, metaPc, metaResult,
              metaLog>>

\* The state of the operations on documents called on their own.
isoVars == <<nodes, srcDoc, isoCalls, edits>>

remVars == <<documentUrl, container, remStart, remSections, remI, remPc,
             remFetches, remInFlight>>

domVars == <<reelCalls, isoVars, remVars>>

vars == <<feedVars, reelAt, genVars, provVars, metaVars, domVars>>

\* What the steps of each part leave alone.
notFeed == <<reelAt, genVars, provVars, metaVars, domVars>>

notStream == <<feedVars, reelAt, provVars, metaVars, domVars>>

notProvider == <<feedVars, reelAt, genVars, metaVars, domVars>>

notMeta == <<feedUrl, netOk, contentType, resource, feedCalls, growth,
             reelAt, genVars, provVars, domVars>>

\* ------------------------------------------------------------ the fetcher
\* The Content-Type headers a server may send; <<>> is no header at all,
\* which "headers.get(...) || ''" turns into the empty string.
ContentTypes ==
  { <<>>,
    <<"text/plain">>,
    <<"text/plain", ";", "charset=utf-8">>,
    <<"text/plain", " ", ";", "charset=utf-8">>,
    <<"text/html">>,
    <<"text/html", ";", "text/plain">> }

Null == [ok |-> FALSE]

\* The range header of a request: the first byte asked for, -1 for none.
RangeOf(startingByte) == IF startingByte > 0 THEN startingByte ELSE -1

\* A server that honours byte ranges: 200 with everything, 206 with the
\* bytes from the first one asked for, 416 when there is no such byte.
ServerResponse(bytes, ok, range) ==
  IF ~ok THEN [ok |-> FALSE, body |-> <<>>]
  ELSE IF range = -1 THEN [ok |-> TRUE, body |-> bytes]
  ELSE IF range >= Len(bytes) THEN [ok |-> FALSE, body |-> <<>>]
  ELSE [ok |-> TRUE, body |-> SubSeq(bytes, range + 1, Len(bytes))]

\* getHttpContent: null on any failure, else the headers and the text.
GetHttpContent(ok, header, text, startingByte) ==
  LET resp == ServerResponse(Utf8Encode(text), ok, RangeOf(startingByte))
  IN IF ~resp.ok THEN Null
     ELSE [ok |-> TRUE, headers |-> header, text |-> Utf8Decode(resp.body)]

\* ---------------------------------------------------------- feed listing
\* (header || "").split(";")[0]
MediaType(header) ==
  IF \A k \in 1..Len(header) : header[k] # ";"
  THEN header
  ELSE SubSeq(header, 1,
              (CHOOSE k \in 1..Len(header) :
                 header[k] = ";" /\ \A j \in 1..(k - 1) : header[j] # ";") - 1)

IsPlainList(type) == type = <<"text/plain">>

\* The base the lines of a feed are resolved against.
FeedBase(url) == FolderOf(url)

\* KeepLines without the filter of "#" lines.
KeepLinesAndComments(lines) == SelectSeq(lines, IsNonEmpty)

\* The lines kept as items.
KeepLines(lines) == SelectSeq(SelectSeq(lines, IsNonEmpty), IsNotComment)

\* text.split("\n").map(trim).filter(nonempty).filter(not #).map(resolve)
FeedItems(text, url) ==
  LET split == SplitLines(text)
      lines == [k \in 1..Len(split) |-> Trim(split[k])]
      kept  == KeepLines(lines)
  IN [k \in 1..Len(kept) |-> Resolve(Rel(kept[k]), FeedBase(url))]

\* BytesRead with the fallback of the failure case: text.length || -1
BytesReadOrMinusOne(text) ==
  IF StrLength(text) # 0 THEN StrLength(text) ELSE -1

\* fetchResult.text.length || 0
BytesRead(text) == IF StrLength(text) # 0 THEN StrLength(text) ELSE 0

\* getFeedFromUrl
GetFeedFromUrl(url, startingByte, ok, header, text) ==
  LET fetchResult == GetHttpContent(ok, header, text, startingByte)
  IN IF ~fetchResult.ok
     THEN [urls |-> <<>>, bytesRead |-> -1]
     ELSE IF ~IsPlainList(MediaType(fetchResult.headers))
     THEN [urls |-> <<>>, bytesRead |-> -1]
     ELSE [urls |-> FeedItems(fetchResult.text, url),
           bytesRead |-> BytesRead(fetchResult.text)]

\* ------------------------------------------- specification: one feed read
FeedUrls == {Abs(0, <<"f">>), Abs(1, <<"f">>)}

\* No generator of getPostersFromFeed exists.
IdleStream ==
  /\ genPc = "none"
  /\ genUrls = <<>>
  /\ genI = 0
  /\ queue = 0
  /\ requests = 0
  /\ delivered = <<>>
  /\ fetchLog = <<>>
  /\ inFlight = 0

\* Nor is any Reel fetched.
NoStream == reelAt = <<>> /\ IdleStream

\* No Omniview provider exists.
NoProvider ==
  /\ provUrls = <<>>
  /\ provCalls = <<>>
  /\ provFetches = <<>>

\* No call of getFeedMetaData is made.
NoMeta ==
  /\ dirDoc = <<>>
  /\ deepDoc = <<>>
  /\ currentUrl = CurrentUrl
  /\ safety = 0
  /\ metaPc = "none"
  /\ metaResult = <<>>
  /\ metaLog = <<>>

\* No operation on documents is called on its own.
NoReelRead == reelCalls = <<>>

NoIsolation ==
  /\ nodes = <<>>
  /\ srcDoc = [head |-> <<>>, body |-> <<>>]
  /\ isoCalls = <<>>
  /\ edits = <<>>

NoRemote ==
  /\ documentUrl = CurrentUrl
  /\ container = <<>>
  /\ remStart = <<>>
  /\ remSections = <<>>
  /\ remI = 0
  /\ remPc = "none"
  /\ remFetches = <<>>
  /\ remInFlight = 0

NoDom == NoReelRead /\ NoIsolation /\ NoRemote

InitFeed ==
  /\ NoDom
  /\ NoStream
  /\ NoProvider
  /\ NoMeta
  /\ feedUrl \in FeedUrls
  /\ netOk \in BOOLEAN
  /\ contentType \in ContentTypes
  /\ resource \in Texts(MaxBody)
  /\ feedCalls = <<>>
  /\ growth = <<>>

\* A call of getFeedFromUrl(feedUrl, startingByte), from request to result.
ReadFeed(startingByte) ==
  /\ feedCalls' = Append(feedCalls,
       [startingByte |-> startingByte,
        range  |-> RangeOf(startingByte),
        served |-> resource,
        result |-> GetFeedFromUrl(feedUrl, startingByte, netOk,
                                  contentType, resource)])
  /\ UNCHANGED <<feedUrl, netOk, contentType, resource, growth>>
  /\ UNCHANGED notFeed

FirstRead ==
  /\ feedCalls = <<>>
  /\ ReadFeed(0)

NextFeed == FirstRead

SpecFeed == InitFeed /\ [][NextFeed]_vars

\* ---------------------------------- specification: an incremental feed read
InitIncr ==
  /\ NoDom
  /\ NoStream
  /\ NoProvider
  /\ NoMeta
  /\ feedUrl = Abs(1, <<"f">>)
  /\ netOk = TRUE
  /\ contentType \in {<<"text/plain">>, <<"text/plain", ";", "charset=utf-8">>}
  /\ resource \in Texts(MaxBody)
  /\ feedCalls = <<>>
  /\ growth = <<>>

\* The publisher appends to the feed resource.
Grow ==
  /\ Len(feedCalls) = 1
  /\ growth = <<>>
  /\ \E g \in Texts(MaxGrow) :
       /\ resource' = resource \o g
       /\ growth' = <<g>>
  /\ UNCHANGED <<feedUrl, netOk, contentType, feedCalls>>
  /\ UNCHANGED notFeed

\* The caller resumes from the bytesRead of its first read.
ResumeRead ==
  /\ Len(feedCalls) = 1
  /\ growth # <<>>
  /\ feedCalls[1].result.bytesRead >= 0
  /\ ReadFeed(feedCalls[1].result.bytesRead)

NextIncr == FirstRead \/ Grow \/ ResumeRead

SpecIncr == InitIncr /\ [][NextIncr]_vars

\* ------------------------------------- specification: the poster stream
\* The names of the Reels a feed of the model lists.
ItemNames == {<<"a">>, <<"U00E9">>}

\* The lines of its feed resources: an item, or a comment.
LineKinds == ItemNames \cup {<<"#">>}

ItemLocs == {Abs(1, n) : n \in ItemNames}

RECURSIVE JoinLines(_)
JoinLines(lines) ==
  IF lines = <<>> THEN <<>>
  ELSE Head(lines) \o <<"\n">> \o JoinLines(Tail(lines))

FeedTexts ==
  {JoinLines(ls) : ls \in UNION {[1..n -> LineKinds] : n \in 0..MaxLines}}

InitStream ==
  /\ NoDom
  /\ NoProvider
  /\ NoMeta
  /\ feedUrl = Abs(1, <<"f">>)
  /\ netOk \in BOOLEAN
  /\ contentType \in {<<"text/plain">>, <<"text/html">>}
  /\ resource \in FeedTexts
  /\ feedCalls = <<>>
  /\ growth = <<>>
  /\ reelAt \in [ItemLocs -> ReelOutcomes]
  /\ genPc = "start"
  /\ genUrls = <<>>
  /\ genI = 0
  /\ queue = 0
  /\ requests = 0
  /\ delivered = <<>>
  /\ fetchLog = <<>>
  /\ inFlight = 0

DoneResult == [done |-> TRUE]

YieldResult(poster, url) == [done |-> FALSE, poster |-> poster, url |-> url]

\* The number of items among the results.
Yields(dl) == Len(SelectSeq(dl, LAMBDA r : ~r.done))

\* A suspended async generator runs only to answer a next() request.
\* ResumesUnasked is a generator that runs on without one.
ResumesUnasked == TRUE

MayRun == queue > 0

\* "for (const url of readResult.urls)" after an item gave no poster: on to
\* the next item.  StopsAtSkip leaves the loop instead.
StopsAtSkip(i, n) == n + 1

AfterSkip(i, n) == i + 1

\* The generator goes on with item i of urls: it issues the Reel fetch for
\* it and waits, or, past the last item, returns.  q, dl and fl are the
\* queue, the results and the fetches in flight as the step leaves them.
Advance(urls, i, q, dl, fl) ==
  IF i <= Len(urls)
  THEN /\ genPc' = "awaitReel"
       /\ genI' = i
       /\ fetchLog' = Append(fetchLog,
            [idx |-> i, url |-> urls[i], requests |-> requests,
             yields |-> Yields(dl)])
       /\ inFlight' = fl + 1
       /\ queue' = q
       /\ delivered' = dl
  ELSE /\ genPc' = "done"
       /\ genI' = i
       /\ fetchLog' = fetchLog
       /\ inFlight' = fl
       /\ queue' = q - 1
       /\ delivered' = Append(dl, DoneResult)

\* The consumer calls next().
ConsumerNext ==
  /\ requests < MaxRequests
  /\ requests' = requests + 1
  /\ queue' = queue + 1
  /\ UNCHANGED <<genPc, genUrls, genI, delivered, fetchLog, inFlight>>
  /\ UNCHANGED notStream

\* The first next() starts the body: it calls getFeedFromUrl and waits.
GenStart ==
  /\ genPc = "start"
  /\ MayRun
  /\ genPc' = "awaitFeed"
  /\ UNCHANGED <<genUrls, genI, queue, requests, delivered, fetchLog,
                 inFlight>>
  /\ UNCHANGED notStream

\* getFeedFromUrl resolves; the loop starts.
GenFeedResult ==
  /\ genPc = "awaitFeed"
  /\ LET readResult == GetFeedFromUrl(feedUrl, 0, netOk, contentType,
                                      resource)
     IN /\ genUrls' = readResult.urls
        /\ Advance(readResult.urls, 1, queue, delivered, inFlight)
  /\ UNCHANGED <<requests, notStream>>

\* Awaited without the await: the fetch is left in flight.
NotAwaited(fl) == fl

\* "await Syndi.getReelFromUrl(url)": the body goes on when the fetch has
\* settled, which is then no longer in flight.
Awaited(fl) == fl - 1

\* StreamPoster that takes any Reel found: reel ? ... : null
StreamPosterOfAny(reel) ==
  IF reel.ok
  THEN GetSandboxedElement(
         reel.head \o (IF Len(reel.sections) = 0 THEN <<>>
                       ELSE <<reel.sections[1]>>), reel.url)
  ELSE NullElem

\* The poster of the loop body:
\* reel?.sections.length ? getSandboxedElement([...head, sections[0]]) : null
StreamPoster(reel) ==
  IF reel.ok /\ Len(reel.sections) # 0
  THEN GetSandboxedElement(reel.head \o <<reel.sections[1]>>, reel.url)
  ELSE NullElem

\* getReelFromUrl resolves: the item is yielded, or skipped.
GenReelResult ==
  /\ genPc = "awaitReel"
  /\ LET url == genUrls[genI]
         reel == GetReelFromUrl(url, reelAt[url])
         poster == StreamPoster(reel)
     IN IF ~IsNull(poster)
        THEN /\ genPc' = "yielded"
             /\ delivered' = Append(delivered, YieldResult(poster, url))
             /\ queue' = queue - 1
             /\ inFlight' = Awaited(inFlight)
             /\ UNCHANGED <<genI, fetchLog>>
        ELSE Advance(genUrls, AfterSkip(genI, Len(genUrls)), queue,
                     delivered, Awaited(inFlight))
  /\ UNCHANGED <<genUrls, requests, notStream>>

\* The generator, suspended at its yield, is resumed by a next().
GenResume ==
  /\ genPc = "yielded"
  /\ MayRun
  /\ Advance(genUrls, genI + 1, queue, delivered, inFlight)
  /\ UNCHANGED <<genUrls, requests, notStream>>

\* A next() on the finished generator resolves with done.
GenDone ==
  /\ genPc = "done"
  /\ queue > 0
  /\ queue' = queue - 1
  /\ delivered' = Append(delivered, DoneResult)
  /\ UNCHANGED <<genPc, genUrls, genI, requests, fetchLog, inFlight>>
  /\ UNCHANGED notStream

NextStream ==
  \/ ConsumerNext
  \/ GenStart
  \/ GenFeedResult
  \/ GenReelResult
  \/ GenResume
  \/ GenDone

SpecStream == InitStream /\ [][NextStream]_vars

\* --------------------------------------------- claims on the poster stream
\* The Reel at a location was found and has at least one section.
HasSections(u) ==
  reelAt[u].ok /\ \E k \in 1..Len(reelAt[u].body) :
                    reelAt[u].body[k].name = "SECTION"

\* The locations of the items yielded so far, in the order of the yields.
YieldedUrls ==
  LET items == SelectSeq(delivered, LAMBDA r : ~r.done)
  IN [k \in 1..Len(items) |-> items[k].url]

\* The number of listing items the generator is through with.
Processed ==
  CASE genPc = "yielded" -> genI
    [] genPc = "awaitReel" -> genI - 1
    [] genPc = "done" -> Len(genUrls)
    [] OTHER -> 0

\* C1: what the stream has yielded is, in listing order, exactly the items
\* it is through with whose Reel was found with a section; so at the end it
\* is exactly those of the whole listing, and a skipped item ends nothing.
C1_YieldsResolvableItemsInOrder ==
  /\ YieldedUrls = SelectSeq(SubSeq(genUrls, 1, Processed), HasSections)
  /\ \A k \in 1..Len(delivered) :
       ~delivered[k].done => ~IsNull(delivered[k].poster)

\* C1 witness: a stream over three items, the second of which does not
\* resolve, has ended after yielding the first and the third.
C1_Witness ==
  /\ genPc = "done"
  /\ Len(genUrls) = 3
  /\ HasSections(genUrls[1])
  /\ ~HasSections(genUrls[2])
  /\ HasSections(genUrls[3])
  /\ YieldedUrls = <<genUrls[1], genUrls[3]>>

\* C2: a step that issues a Reel fetch is taken only while a next() of the
\* consumer is unanswered, the consumer having asked for more elements than
\* were yielded; with no request outstanding nothing is fetched.
C2_FetchesOnlyOnDemand ==
  [][fetchLog' # fetchLog
       => (queue > 0 /\ requests > Yields(delivered))]_vars

\* C2 witness: the consumer received the first item and asks no more; the
\* generator stands at its yield with only that item fetched, more listed.
C2_Witness ==
  /\ genPc = "yielded"
  /\ queue = 0
  /\ genI = 1
  /\ Len(genUrls) > 1
  /\ Len(fetchLog) = 1
  /\ Yields(delivered) = 1

\* ------------------------------- specification: the Omniview's provider
\* No feed is read.
NoFeed ==
  /\ feedUrl = Abs(1, <<"f">>)
  /\ netOk = TRUE
  /\ contentType = <<"text/plain">>
  /\ resource = <<>>
  /\ feedCalls = <<>>
  /\ growth = <<>>

InitProvider ==
  /\ NoDom
  /\ NoFeed
  /\ NoMeta
  /\ IdleStream
  /\ reelAt \in [ItemLocs -> ReelOutcomes]
  /\ provUrls \in UNION {[1..n -> ItemLocs] : n \in 0..MaxItems}
  /\ provCalls = <<>>
  /\ provFetches = <<>>

\* urls[index] stringified, where the index is past the end
UndefinedUrl == Abs(0, <<"undefined">>)

\* urls[index], the index counted from 0
UrlAt(index) ==
  IF index >= 0 /\ index < Len(provUrls) THEN provUrls[index + 1]
  ELSE UndefinedUrl

\* What fetching and sanitizing a location gives.
OutcomeAt(url) == IF url \in DOMAIN reelAt THEN reelAt[url] ELSE NoDoc

\* IsPastEnd with the comparison off by one: index > urls.length
IsBeyondEnd(index) == index > Len(provUrls)

\* index >= urls.length
IsPastEnd(index) == index >= Len(provUrls)

\* OrErrorPoster without the fallback.
AsIs(poster) == poster

\* poster || getErrorPoster()
OrErrorPoster(poster) == IF IsNull(poster) THEN ErrorPoster ELSE poster

Call(op, index, pc, value) ==
  [op |-> op, index |-> index, pc |-> pc, value |-> value,
   fillElement |-> <<>>, selectedElement |-> <<>>]

\* getPoster(index): null at once past the end, else a promise whose
\* executor calls getPosterFromUrl.
GetPosterAt(index) ==
  /\ IF IsPastEnd(index)
     THEN /\ provCalls' = Append(provCalls,
                Call("getPoster", index, "returned", NullElem))
          /\ UNCHANGED provFetches
     ELSE /\ provCalls' = Append(provCalls,
                Call("getPoster", index, "pending", NullElem))
          /\ provFetches' = Append(provFetches,
                [call |-> Len(provCalls) + 1, url |-> UrlAt(index)])
  /\ UNCHANGED <<provUrls, notProvider>>

\* The Omniview asks for the poster at some index.
GetPoster ==
  /\ Len(provCalls) < MaxCalls
  /\ \E index \in 0..(MaxItems + 1) : GetPosterAt(index)

\* getPosterFromUrl resolves, and with it the promise of getPoster.
PosterResolves ==
  /\ \E k \in 1..Len(provCalls) :
       /\ provCalls[k].op = "getPoster"
       /\ provCalls[k].pc = "pending"
       /\ LET url == UrlAt(provCalls[k].index)
              poster == GetPosterFromUrl(url, OutcomeAt(url))
          IN provCalls' = [provCalls EXCEPT
                             ![k].pc = "resolved",
                             ![k].value = OrErrorPoster(poster)]
  /\ UNCHANGED <<provUrls, provFetches, notProvider>>

\* fillBody(fillElement, selectedElement, index), for a poster shown:
\* it calls getReelFromUrl and waits.
FillBody ==
  /\ Len(provCalls) < MaxCalls
  /\ \E index \in 0..(Len(provUrls) - 1) :
       /\ provCalls' = Append(provCalls,
             Call("fillBody", index, "pending", NullElem))
       /\ provFetches' = Append(provFetches,
             [call |-> Len(provCalls) + 1, url |-> UrlAt(index)])
  /\ UNCHANGED <<provUrls, notProvider>>

\* getReelFromUrl resolves: the error poster is appended to the selected
\* element, or the sandbox of the head and all sections to the fill element.
FillResolves ==
  /\ \E k \in 1..Len(provCalls) :
       /\ provCalls[k].op = "fillBody"
       /\ provCalls[k].pc = "pending"
       /\ LET url == UrlAt(provCalls[k].index)
              reel == GetReelFromUrl(url, OutcomeAt(url))
          IN IF ~reel.ok
             THEN provCalls' = [provCalls EXCEPT
                    ![k].pc = "resolved",
                    ![k].selectedElement = Append(@, ErrorPoster)]
             ELSE provCalls' = [provCalls EXCEPT
                    ![k].pc = "resolved",
                    ![k].fillElement = Append(@,
                       GetSandboxedElement(reel.head \o reel.sections,
                                           reel.url))]
  /\ UNCHANGED <<provUrls, provFetches, notProvider>>

NextProvider == GetPoster \/ PosterResolves \/ FillBody \/ FillResolves

SpecProvider == InitProvider /\ [][NextProvider]_vars

\* ------------------------------------ specification: metadata discovery
\* The loop bound of getFeedMetaData.
SafetyHops == 1000

MetaEl(name, content) ==
  Elem("meta", [name |-> name, content |-> content], <<>>)

LinkEl(rel, href) == Elem("link", [rel |-> rel, href |-> href], <<>>)

\* What fetching the index of a directory gives: no response, or a page
\* with the elements the reader traps.
NoResponse == [ok |-> FALSE, elems |-> <<>>]

Page(elems) == [ok |-> TRUE, elems |-> elems]

IndexPages ==
  { Page(<<MetaEl("description", "")>>),
    Page(<<MetaEl("description", "D")>>),
    Page(<<LinkEl("icon", "I")>>),
    Page(<<MetaEl("feed-description", "FD"), MetaEl("description", "D"),
           LinkEl("icon", "I"), LinkEl("feed-icon", "FI")>>) }

DirOutcomes == {NoResponse} \cup IndexPages

DeepOutcomes == {NoResponse, Page(<<>>), Page(<<LinkEl("icon", "I")>>)}

\* The depths getFeedMetaData is started from: near the origin, and so far
\* down that the loop bound is met before the origin.
StartDepths == (0..MaxDepth) \cup {SafetyHops - 1, SafetyHops + MaxDepth}

\* window.fetch of the index of the directory at a depth
DirOutcome(d) == IF d <= MaxDepth THEN dirDoc[d] ELSE deepDoc

\* element.getAttribute(a) || ""
StrAttr(e, a) == IF HasAttr(e, a) THEN e.attrs[a] ELSE ""

\* element.getAttribute(a) === v
AttrIs(e, a, v) == HasAttr(e, a) /\ e.attrs[a] = v

\* The callback given to reader.trapElement, on one element.
TrapElement(e, st) ==
  IF e.name = "meta"
  THEN IF AttrIs(e, "name", "feed-description")
       THEN [st EXCEPT !.feedDescription = StrAttr(e, "content")]
       ELSE IF AttrIs(e, "name", "description")
       THEN [st EXCEPT !.standardDescription = StrAttr(e, "content")]
       ELSE st
  ELSE IF e.name = "link"
  THEN IF AttrIs(e, "rel", "feed-icon")
       THEN [st EXCEPT !.feedIcon = StrAttr(e, "href")]
       ELSE IF AttrIs(e, "rel", "icon")
       THEN [st EXCEPT !.standardIcon = StrAttr(e, "href")]
       ELSE st
  ELSE st

RECURSIVE TrapElements(_, _)
TrapElements(elems, st) ==
  IF elems = <<>> THEN st
  ELSE TrapElements(Tail(elems), TrapElement(Head(elems), st))

\* OrElse with the operands the other way round: b || a
OrElseFirst(a, b) == IF b # "" THEN b ELSE a

\* a || b, on strings
OrElse(a, b) == IF a # "" THEN a ELSE b

\* The description and icon one index page gives.
ScanPage(page) ==
  LET st == TrapElements(page.elems,
              [standardDescription |-> "", feedDescription |-> "",
               standardIcon |-> "", feedIcon |-> ""])
  IN [description |-> OrElse(st.feedDescription, st.standardDescription),
      icon |-> OrElse(st.feedIcon, st.standardIcon)]

\* HasAny asking for both values: description && icon
HasBoth(description, icon) == description # "" /\ icon # ""

\* description || icon
HasAny(description, icon) == description # "" \/ icon # ""

\* new URL("..", currentUrl): the parent directory, the origin's own at
\* the origin.
UrlParent(url) == Abs(IF url.depth > 0 THEN url.depth - 1 ELSE 0, <<>>)

\* IsFixedPoint that never holds.
NeverFixedPoint(url, parent) == FALSE

\* currentUrl === url.toString()
IsFixedPoint(url, parent) == url = parent

NotFound == [found |-> FALSE, description |-> "", icon |-> ""]

Found(d, i) == [found |-> TRUE, description |-> d, icon |-> i]

InitMeta ==
  /\ NoDom
  /\ NoStream
  /\ NoProvider
  /\ feedUrl \in {Abs(d, <<"f">>) : d \in StartDepths}
  /\ netOk = TRUE
  /\ contentType = <<"text/plain">>
  /\ resource = <<>>
  /\ feedCalls = <<>>
  /\ growth = <<>>
  /\ dirDoc \in [0..MaxDepth -> DirOutcomes]
  /\ deepDoc \in DeepOutcomes
  /\ currentUrl = CurrentUrl
  /\ safety = 0
  /\ metaPc = "idle"
  /\ metaResult = <<>>
  /\ metaLog = <<>>

\* getFeedMetaData(feedUrl) is called.
MetaCall ==
  /\ metaPc = "idle"
  /\ currentUrl' = FolderOf(feedUrl)
  /\ safety' = SafetyHops
  /\ metaPc' = "loop"
  /\ UNCHANGED <<dirDoc, deepDoc, metaResult, metaLog, notMeta>>

\* One turn of the loop: the index of currentUrl is fetched and scanned;
\* its values are returned, or the loop is left at the fixed point of "..",
\* or currentUrl moves to the parent.
MetaHop ==
  /\ metaPc = "loop"
  /\ safety > 0
  /\ safety' = safety - 1
  /\ metaLog' = Append(metaLog, currentUrl.depth)
  /\ LET httpContent == DirOutcome(currentUrl.depth)
         got == ScanPage(httpContent)
         parent == UrlParent(currentUrl)
     IN IF httpContent.ok /\ HasAny(got.description, got.icon)
        THEN /\ metaPc' = "done"
             /\ metaResult' = Found(got.description, got.icon)
             /\ UNCHANGED currentUrl
        ELSE IF IsFixedPoint(currentUrl, parent)
        THEN /\ metaPc' = "done"
             /\ metaResult' = NotFound
             /\ UNCHANGED currentUrl
        ELSE /\ currentUrl' = parent
             /\ UNCHANGED <<metaPc, metaResult>>
  /\ UNCHANGED <<dirDoc, deepDoc, notMeta>>

\* The loop test fails: null is returned.
MetaExhausted ==
  /\ metaPc = "loop"
  /\ safety <= 0
  /\ safety' = safety - 1
  /\ metaPc' = "done"
  /\ metaResult' = NotFound
  /\ UNCHANGED <<dirDoc, deepDoc, currentUrl, metaLog, notMeta>>

NextMeta == MetaCall \/ MetaHop \/ MetaExhausted

SpecMeta == InitMeta /\ [][NextMeta]_vars

\* -------------------------------------- claims on the metadata discovery
\* The index of the directory at depth d yields a non-empty description or
\* icon.
DirHasMeta(d) ==
  /\ DirOutcome(d).ok
  /\ \/ ScanPage(DirOutcome(d)).description # ""
     \/ ScanPage(DirOutcome(d)).icon # ""

\* The values of that directory alone.
DirValues(d) ==
  Found(ScanPage(DirOutcome(d)).description, ScanPage(DirOutcome(d)).icon)

\* What discovery owes when the directories at the depths ds are the ones
\* that count: the values of the deepest of them that has any, with no
\* directory above that one fetched; NotFound when none has any.
NearestWins(ds) ==
  LET withMeta == {d \in ds : DirHasMeta(d)}
  IN IF withMeta = {} THEN metaResult = NotFound
     ELSE LET n == CHOOSE d \in withMeta : \A e \in withMeta : e <= d
          IN /\ metaResult = DirValues(n)
             /\ \A k \in 1..Len(metaLog) : metaLog[k] >= n

\* C9 as stated: discovery returns the values of the nearest directory, at
\* or above the feed's own, that has any, and fetches nothing above it.
C9_NearestDirectoryWins ==
  metaPc = "done" => NearestWins(0..feedUrl.depth)

\* C9 as amended: the same, among the first SafetyHops directories of the
\* walk; NotFound when none of them has any value.
C9_NearestWithinBoundWins ==
  metaPc = "done"
    => NearestWins({d \in 0..feedUrl.depth :
                      d > feedUrl.depth - SafetyHops})

\* C9 witness: the feed's directory has an index without values, its parent
\* has values, and discovery returned the parent's.
C9_Witness ==
  /\ metaPc = "done"
  /\ feedUrl.depth = 1
  /\ DirOutcome(1).ok /\ ~DirHasMeta(1)
  /\ DirHasMeta(0)
  /\ metaLog = <<1, 0>>
  /\ metaResult = DirValues(0)

\* What holds of every state of a discovery: at most SafetyHops fetches; a
\* call that has not returned can take a step; NotFound is returned exactly
\* when no fetched directory had a value, and then the origin was fetched
\* or SafetyHops fetches were made.
BoundedWalk ==
  /\ Len(metaLog) <= SafetyHops
  /\ metaPc \in {"idle", "loop"} => ENABLED NextMeta
  /\ metaPc = "done" =>
       /\ metaResult = NotFound
            <=> \A k \in 1..Len(metaLog) : ~DirHasMeta(metaLog[k])
       /\ metaResult = NotFound =>
            \/ metaLog # <<>> /\ metaLog[Len(metaLog)] = 0
            \/ Len(metaLog) = SafetyHops

\* What holds of every step of the loop: it lowers the counter, which is
\* never below -1, and a fetch is of the feed's directory first and then of
\* the parent of the directory fetched before, so of none twice.
WalksUp ==
  /\ safety' < safety
  /\ safety' >= -1
  /\ metaLog' # metaLog =>
       metaLog' = Append(metaLog,
                    IF metaLog = <<>> THEN feedUrl.depth
                    ELSE metaLog[Len(metaLog)] - 1)

\* C10: discovery terminates, at the fixed point of ".." or at the loop
\* bound: every state of it is as BoundedWalk says, and every step of its
\* loop as WalksUp says.
C10_DiscoveryTerminates ==
  /\ []BoundedWalk
  /\ [][metaPc = "loop" => WalksUp]_vars

\* C10 witness: discovery returned NotFound after SafetyHops fetches, the
\* origin not reached.
C10_Witness ==
  /\ metaPc = "done"
  /\ metaResult = NotFound
  /\ Len(metaLog) = SafetyHops
  /\ metaLog[SafetyHops] > 0

\* ------------------------------------------------ claims on the provider
\* The fetches a call issued.
FetchesOf(k) == {j \in 1..Len(provFetches) : provFetches[j].call = k}

\* The Reel of item index (from 0) was found and has a section.
ItemHasSections(index) ==
  LET d == reelAt[provUrls[index + 1]]
  IN d.ok /\ \E j \in 1..Len(d.body) : d.body[j].name = "SECTION"

\* C6: getPoster for an index at or past the number of urls returns null at
\* once, never a placeholder, and issues no fetch.
C6_PastEndIsEndOfSequence ==
  \A k \in 1..Len(provCalls) :
    (provCalls[k].op = "getPoster" /\ provCalls[k].index >= Len(provUrls))
      => /\ provCalls[k].pc = "returned"
         /\ IsNull(provCalls[k].value)
         /\ FetchesOf(k) = {}

\* C6 witness: with urls given, getPoster was called with index = their
\* number and returned null.
C6_Witness ==
  \E k \in 1..Len(provCalls) :
    /\ provCalls[k].op = "getPoster"
    /\ Len(provUrls) > 0
    /\ provCalls[k].index = Len(provUrls)
    /\ provCalls[k].pc = "returned"

\* C7: getPoster for an index in range never returns null: it gives a
\* promise, which resolves with the error poster when the Reel was not found
\* or has no section, and with a poster that is not the error poster
\* otherwise.
C7_InRangeIsNeverEndOfSequence ==
  \A k \in 1..Len(provCalls) :
    (provCalls[k].op = "getPoster" /\ provCalls[k].index < Len(provUrls))
      => /\ provCalls[k].pc # "returned"
         /\ provCalls[k].pc = "resolved" =>
              /\ ~IsNull(provCalls[k].value)
              /\ ItemHasSections(provCalls[k].index)
                   <=> provCalls[k].value # ErrorPoster

\* C7 witness: getPoster resolved with the error poster for an item whose
\* Reel cannot be fetched, and for one whose Reel has no section.
C7_Witness ==
  /\ \E k \in 1..Len(provCalls) :
       /\ provCalls[k].op = "getPoster"
       /\ provCalls[k].pc = "resolved"
       /\ provCalls[k].value = ErrorPoster
       /\ ~OutcomeAt(UrlAt(provCalls[k].index)).ok
  /\ \E k \in 1..Len(provCalls) :
       /\ provCalls[k].op = "getPoster"
       /\ provCalls[k].pc = "resolved"
       /\ provCalls[k].value = ErrorPoster
       /\ OutcomeAt(UrlAt(provCalls[k].index)).ok

\* What the claim calls the isolation of the assets and all the sections of
\* a found Reel: the standard css, the style/link nodes of the head that
\* declare no feed, then the sections of the body.
FullIsolation(url) ==
  LET d == reelAt[url]
      assets == SelectSeq(d.head,
                  LAMBDA e : e.name \in {"LINK", "STYLE"} /\ ~IsFeedLink(e))
      sections == SelectSeq(d.body, LAMBDA e : e.name = "SECTION")
  IN [name |-> "DIV", attrs |-> NoAttrs, kids |-> <<>>,
      shadow |-> RewriteAll(<<StandardCss>> \o assets \o sections,
                            Abs(url.depth, <<>>))]

\* C8: fillBody for an index in range leaves its result in the fill
\* element: the isolation of the assets and all sections when the Reel was
\* read, the error poster when it was not.
C8_FillResultInFillElement ==
  \A k \in 1..Len(provCalls) :
    (provCalls[k].op = "fillBody" /\ provCalls[k].pc = "resolved")
      => LET url == provUrls[provCalls[k].index + 1]
         IN provCalls[k].fillElement =
              IF reelAt[url].ok THEN <<FullIsolation(url)>>
              ELSE <<ErrorPoster>>

\* ------------------------------------------------- claims on the feed read
\* What the claims call the items of a text: one pass over the characters,
\* a line ends at each newline; a line is stripped of the white space around
\* it and kept unless nothing is left or it starts with "#".
Strip(l) ==
  LET ns == {k \in 1..Len(l) : l[k] \notin WhiteSpace}
  IN IF ns = {} THEN <<>>
     ELSE SubSeq(l, CHOOSE k \in ns : \A j \in ns : k <= j,
                    CHOOSE k \in ns : \A j \in ns : k >= j)

EmitLine(l, dir) ==
  LET t == Strip(l)
  IN IF t = <<>> \/ t[1] = "#" THEN <<>> ELSE <<Abs(dir, t)>>

RECURSIVE ScanItems(_, _, _)
ScanItems(rest, line, dir) ==
  IF rest = <<>> THEN EmitLine(line, dir)
  ELSE IF Head(rest) = "\n"
       THEN EmitLine(line, dir) \o ScanItems(Tail(rest), <<>>, dir)
       ELSE ScanItems(Tail(rest), Append(line, Head(rest)), dir)

\* The response's media type, the header up to its first ";", is text/plain.
TypeIsPlain ==
  /\ contentType # <<>>
  /\ contentType[1] = "text/plain"
  /\ Len(contentType) = 1 \/ contentType[2] = ";"

\* C3: a read from byte 0 of a feed served as text/plain returns, in order,
\* the resolved non-blank non-comment stripped lines of the body, resolved
\* against the feed's own directory.
C3_ItemsAreFilteredLines ==
  \A k \in 1..Len(feedCalls) :
    (netOk /\ TypeIsPlain /\ feedCalls[k].startingByte = 0)
      => feedCalls[k].result.urls
           = ScanItems(feedCalls[k].served, <<>>, feedUrl.depth)

\* C3 witness: a plain feed below the page's directory with a comment line
\* and two items has been read.
C3_Witness ==
  /\ Len(feedCalls) = 1
  /\ netOk /\ TypeIsPlain
  /\ feedUrl.depth = 1
  /\ \E k \in 1..Len(resource) : resource[k] = "#"
  /\ \E k \in 1..Len(resource) : resource[k] = " "
  /\ Len(feedCalls[1].result.urls) = 2

\* C5: the result is ([], -1) exactly when the fetch failed or the media
\* type is not text/plain; a text/plain response gives bytesRead >= 0.
C5_UnusableIsMinusOne ==
  \A k \in 1..Len(feedCalls) :
    LET r == feedCalls[k].result
        unusable == ~netOk \/ ~TypeIsPlain
    IN /\ unusable => (r.urls = <<>> /\ r.bytesRead = -1)
       /\ ~unusable => r.bytesRead >= 0

\* C5 witness: an empty text/plain feed has been read, and it gave 0.
C5_Witness ==
  /\ Len(feedCalls) = 1
  /\ netOk /\ TypeIsPlain
  /\ resource = <<>>
  /\ feedCalls[1].result = [urls |-> <<>>, bytesRead |-> 0]

\* Byte offset n is a line boundary of the bytes: the start, or just after
\* a newline.
IsLineBoundary(bytes, n) ==
  n = 0 \/ (n <= Len(bytes) /\ bytes[n] = "\n")

\* The text holds whole lines only.
EndsOnLine(text) == text = <<>> \/ text[Len(text)] = "\n"

\* C4: when the resource held whole lines at the first read and the first
\* read's bytesRead N is a line boundary of the resource, the resumed read
\* asks for the range from N, and the items of the two reads together are
\* the items of the grown resource, none repeated and none skipped.
C4_ResumeNeitherSkipsNorRepeats ==
  (Len(feedCalls) = 2
     /\ EndsOnLine(feedCalls[1].served)
     /\ IsLineBoundary(Utf8Encode(resource), feedCalls[1].result.bytesRead))
    => /\ feedCalls[2].range = RangeOf(feedCalls[1].result.bytesRead)
       /\ feedCalls[1].result.urls \o feedCalls[2].result.urls
            = ScanItems(resource, <<>>, feedUrl.depth)

\* ------------------------------- specification: the scan of one index page
\* The elements an index page of this specification is made of: markers of
\* the four kinds, one of them empty, and a meta element that is no marker.
Markers ==
  { MetaEl("feed-description", "FD"),
    MetaEl("feed-description", ""),
    MetaEl("description", "D"),
    LinkEl("feed-icon", "FI"),
    LinkEl("icon", "I"),
    MetaEl("viewport", "V") }

MarkerPages == {Page(es) : es \in UNION {[1..n -> Markers] : n \in 0..MaxMarkers}}

\* getFeedMetaData for a feed one directory below the origin, the index of
\* every directory on its way being one and the same of these pages.
InitScan ==
  /\ NoDom
  /\ NoStream
  /\ NoProvider
  /\ NoFeed
  /\ \E page \in MarkerPages : dirDoc = [d \in 0..MaxDepth |-> page]
  /\ deepDoc = NoResponse
  /\ currentUrl = CurrentUrl
  /\ safety = 0
  /\ metaPc = "idle"
  /\ metaResult = <<>>
  /\ metaLog = <<>>

NextScan == MetaCall \/ MetaHop

SpecScan == InitScan /\ [][NextScan]_vars

\* ------------------------------------------- claims on the scan of a page
\* The positions of the markers of one kind in a page.
MarkersAt(page, nodeName, attr, value) ==
  {k \in 1..Len(page.elems) :
     /\ page.elems[k].name = nodeName
     /\ attr \in DOMAIN page.elems[k].attrs
     /\ page.elems[k].attrs[attr] = value}

\* The non-empty values the markers of one kind declare in a page.
Present(page, nodeName, attr, value, carrier) ==
  {page.elems[k].attrs[carrier] : k \in MarkersAt(page, nodeName, attr, value)}
    \ {""}

\* The description or icon returned for a page, "" when the page gave none.
Returned(field) ==
  IF metaResult = NotFound THEN ""
  ELSE IF field = "description" THEN metaResult.description
  ELSE metaResult.icon

\* C11 as stated: the description returned is a feed-specific one whenever
\* the page holds a non-empty one, and a generic one or none otherwise; and
\* apart from that the same of the icon.
C11_FeedSpecificWheneverPresent ==
  metaPc = "done"
    => LET fd == Present(dirDoc[0], "meta", "name", "feed-description",
                         "content")
           gd == Present(dirDoc[0], "meta", "name", "description", "content")
           fi == Present(dirDoc[0], "link", "rel", "feed-icon", "href")
           gi == Present(dirDoc[0], "link", "rel", "icon", "href")
       IN /\ IF fd # {} THEN Returned("description") \in fd
             ELSE Returned("description") \in gd \cup {""}
          /\ IF fi # {} THEN Returned("icon") \in fi
             ELSE Returned("icon") \in gi \cup {""}

\* The value the last marker of a kind in a page declares, "" with none.
Declared(page, nodeName, attr, value, carrier) ==
  LET at == MarkersAt(page, nodeName, attr, value)
  IN IF at = {} THEN ""
     ELSE LET e == page.elems[CHOOSE k \in at : \A j \in at : j <= k]
          IN IF carrier \in DOMAIN e.attrs THEN e.attrs[carrier] ELSE ""

\* C11 as amended: a kind of marker that occurs several times counting with
\* its last occurrence, and wherever the markers of different kinds stand,
\* the description returned is the feed-specific one when that is not empty
\* and the generic one only otherwise, and apart from that the icon
\* returned is the feed-specific one when that is not empty and the generic
\* one only otherwise; nothing is returned from the page exactly when both
\* come out empty.
C11_LastFeedSpecificTakesPrecedence ==
  metaPc = "done"
    => LET fd == Declared(dirDoc[0], "meta", "name", "feed-description",
                          "content")
           gd == Declared(dirDoc[0], "meta", "name", "description", "content")
           fi == Declared(dirDoc[0], "link", "rel", "feed-icon", "href")
           gi == Declared(dirDoc[0], "link", "rel", "icon", "href")
           description == IF fd # "" THEN fd ELSE gd
           icon == IF fi # "" THEN fi ELSE gi
       IN IF description = "" /\ icon = ""
          THEN metaResult = NotFound
          ELSE metaResult = Found(description, icon)

\* C11 witness: a page with the generic description before the
\* feed-specific one, and a generic icon only, gave the feed-specific
\* description and the generic icon.
C11_Witness ==
  /\ metaPc = "done"
  /\ dirDoc[0] = Page(<<MetaEl("description", "D"),
                        MetaEl("feed-description", "FD"),
                        LinkEl("icon", "I")>>)
  /\ metaResult = Found("FD", "I")

\* ----------------------------------------- specification: one Reel read
\* The elements the heads of the Reel documents are made of: a stylesheet,
\* a style element, feed declarations with and without the disabled and
\* type attributes, a feed link without href, and a link that is no feed
\* declaration but has the href of one.
LinkFeedDisabled ==
  Elem("LINK", [rel |-> "feed", href |-> Rel(<<"f">>), disabled |-> "true"],
       <<>>)

LinkFeedEnabled ==
  Elem("LINK", [rel |-> "feed", href |-> Rel(<<"g">>), disabled |-> "False",
                type |-> "Text/Feed"], <<>>)

LinkFeedFlag ==
  Elem("LINK", [rel |-> "feed", href |-> Abs(0, <<"h">>), disabled |-> ""],
       <<>>)

LinkFeedNoHref == Elem("LINK", [rel |-> "feed"], <<>>)

LinkAlternate ==
  Elem("LINK", [rel |-> "alternate", href |-> Rel(<<"f">>)], <<>>)

HeadNodes ==
  { LinkCss, StyleEl, LinkFeed, LinkFeedDisabled, LinkFeedEnabled,
    LinkFeedFlag, LinkFeedNoHref, LinkAlternate }

\* A section that holds a feed link with the href of the stylesheet.
SectionLink ==
  Elem("SECTION", [id |-> "s3"],
       <<Elem("LINK", [rel |-> "feed", href |-> Rel(<<"c">>)], <<>>)>>)

ReelBodies ==
  { <<DivEl>>, <<SectionImg>>, <<SectionImg, DivEl, SectionText>>,
    <<SectionLink>> }

ReelHeads == UNION {[1..n -> HeadNodes] : n \in 0..MaxHead}

ReelLocs == {Abs(0, <<"r">>), Abs(1, <<"r">>)}

\* What a Reel location may serve.
ServedReels == {NoDoc} \cup {Doc(h, b) : h \in ReelHeads, b \in ReelBodies}

InitReel ==
  /\ NoFeed
  /\ IdleStream
  /\ NoProvider
  /\ NoMeta
  /\ NoIsolation
  /\ NoRemote
  /\ \E url \in ReelLocs : \E d \in ServedReels : reelAt = [u \in {url} |-> d]
  /\ reelCalls = <<>>

\* A call of getReelFromUrl(url), from request to result.
ReadReel ==
  /\ reelCalls = <<>>
  /\ \E url \in DOMAIN reelAt :
       reelCalls' = <<[url |-> url,
                       result |-> GetReelFromUrl(url, reelAt[url])]>>
  /\ UNCHANGED <<feedVars, reelAt, genVars, provVars, metaVars, isoVars,
                 remVars>>

NextReel == ReadReel

SpecReel == InitReel /\ [][NextReel]_vars

\* ------------------------------------------------ claims on the Reel read
\* A link of a served document that declares a feed: a LINK with the feed
\* relation and a href.
DeclaresFeed(e) ==
  /\ e.name = "LINK"
  /\ "rel" \in DOMAIN e.attrs /\ e.attrs.rel = "feed"
  /\ "href" \in DOMAIN e.attrs /\ e.attrs.href # Rel(<<>>)

\* The feed-declaring links of what a location serves, in document order.
DeclaredFeeds(url) ==
  SelectSeq(Descendants(reelAt[url].head \o reelAt[url].body), DeclaresFeed)

\* The ways the model spells false and true.
SpellsFalse == {"false", "False", "FALSE"}

\* C12: each feed declaration read from a Reel is visible when its link has
\* no disabled attribute or one that spells false in any case, and not
\* visible when the attribute is "true".
C12_VisibleUnlessDisabled ==
  \A c \in 1..Len(reelCalls) :
    reelCalls[c].result.ok =>
      LET links == DeclaredFeeds(reelCalls[c].url)
          feeds == reelCalls[c].result.feeds
      IN /\ Len(feeds) = Len(links)
         /\ \A k \in 1..Len(links) :
              /\ "disabled" \notin DOMAIN links[k].attrs => feeds[k].visible
              /\ ("disabled" \in DOMAIN links[k].attrs
                    /\ links[k].attrs.disabled \in SpellsFalse)
                   => feeds[k].visible
              /\ ("disabled" \in DOMAIN links[k].attrs
                    /\ links[k].attrs.disabled = "true")
                   => ~feeds[k].visible

\* ------------------------------------- specification: one isolation call
\* The source document of this specification has three element nodes, a
\* child of its head and two children of its body; "css" is the node that
\* Syndi.getStandardCss returns.
NodeIds == {"n1", "n2", "n3"}

\* A remote section.
SectionRemote == Elem("SECTION", ("data-src" :> Rel(<<"q">>)), <<>>)

\* A section with an image that is loaded later.
SectionLazyImg ==
  Elem("SECTION", NoAttrs, <<Elem("IMG", ("data-src" :> Rel(<<"p">>)), <<>>)>>)

SectionAnchor ==
  Elem("SECTION", NoAttrs,
       <<Elem("A", ("href" :> Rel(<<"a">>) @@ "data-src" :> Rel(<<"b">>)), <<>>)>>)

SectionVideo ==
  Elem("SECTION", NoAttrs, <<Elem("VIDEO", [src |-> Rel(<<"v">>)], <<>>)>>)

SectionAbsImg ==
  Elem("SECTION", NoAttrs, <<Elem("IMG", [src |-> Abs(0, <<"p">>)], <<>>)>>)

IsoSections ==
  { SectionImg, SectionRemote, SectionLazyImg, SectionAnchor, SectionVideo,
    SectionAbsImg }

\* The sequences without repetition over a set of node identities.
InjectiveSeqs(ids) ==
  {q \in UNION {[1..n -> ids] : n \in 0..Cardinality(ids)} :
     \A i, j \in 1..Len(q) : i # j => q[i] # q[j]}

InitIsolate ==
  /\ NoFeed
  /\ NoStream
  /\ NoProvider
  /\ NoMeta
  /\ NoReelRead
  /\ NoRemote
  /\ \E h \in {LinkCss, StyleEl} : \E b \in IsoSections :
       \E o \in {DivEl, SectionText} :
         nodes = [id \in NodeIds \cup {"css"} |->
                    CASE id = "n1" -> h
                      [] id = "n2" -> b
                      [] id = "n3" -> o
                      [] OTHER -> StandardCss]
  /\ srcDoc = [head |-> <<"n1">>, body |-> <<"n2", "n3">>]
  /\ isoCalls = <<>>
  /\ edits = <<>>

\* The nodes of a sequence of identities, as they are now.
NodesOf(ids) == [k \in 1..Len(ids) |-> nodes[ids[k]]]

\* The source document as it is now.
SourceView == [head |-> NodesOf(srcDoc.head), body |-> NodesOf(srcDoc.body)]

\* ParentNode.append moves a node that has a parent: the identities in
\* moved leave the sequence of children.
Without(ids, moved) == SelectSeq(ids, LAMBDA id : id \notin moved)

\* getSandboxedElement(contents, baseUrl) on nodes of the source document:
\* shadow.append(...head, ...body) makes the nodes given the children of
\* the new container's shadow root; they are rewritten there.
Isolate ==
  /\ isoCalls = <<>>
  /\ \E contents \in InjectiveSeqs(NodeIds) : \E baseUrl \in ReelLocs :
       LET box == GetSandboxedElement(NodesOf(contents), baseUrl)
           head == <<"css">> \o SelectSeq(contents,
                                 LAMBDA id : IsLinkOrStyle(nodes[id]))
           body == SelectSeq(contents, LAMBDA id : IsSection(nodes[id]))
           given == head \o body
           shadow == given
           moved == {shadow[k] : k \in 1..Len(shadow)}
           Place(id) == CHOOSE k \in 1..Len(shadow) : shadow[k] = id
       IN /\ nodes' = [id \in DOMAIN nodes \cup moved |->
                         IF id \in moved THEN box.shadow[Place(id)]
                         ELSE nodes[id]]
          /\ srcDoc' = [head |-> Without(srcDoc.head, moved),
                        body |-> Without(srcDoc.body, moved)]
          /\ isoCalls' = <<[contents |-> contents, baseUrl |-> baseUrl,
                            given |-> NodesOf(given),
                            before |-> SourceView,
                            shadow |-> shadow,
                            after |-> box.shadow]>>
  /\ UNCHANGED edits
  /\ UNCHANGED <<feedVars, reelAt, genVars, provVars, metaVars, reelCalls,
                 remVars>>

\* setAttribute("class", "edited") on a node
Edited(e) ==
  [e EXCEPT !.attrs = [a \in DOMAIN e.attrs \cup {"class"} |->
                         IF a = "class" THEN "edited" ELSE e.attrs[a]]]

\* Later, a node of the scope is changed.
EditScope ==
  /\ isoCalls # <<>>
  /\ Len(edits) < MaxEdits
  /\ \E k \in 1..Len(isoCalls[1].shadow) :
       LET id == isoCalls[1].shadow[k]
       IN /\ nodes' = [nodes EXCEPT ![id] = Edited(@)]
          /\ edits' = Append(edits, [of |-> "scope", node |-> id])
  /\ UNCHANGED <<srcDoc, isoCalls>>
  /\ UNCHANGED <<feedVars, reelAt, genVars, provVars, metaVars, reelCalls,
                 remVars>>

\* Later, one of the nodes that getSandboxedElement was given, or a node of
\* the source document, is changed by its holder.
EditSource ==
  /\ isoCalls # <<>>
  /\ Len(edits) < MaxEdits
  /\ \E id \in NodeIds :
       /\ nodes' = [nodes EXCEPT ![id] = Edited(@)]
       /\ edits' = Append(edits, [of |-> "source", node |-> id])
  /\ UNCHANGED <<srcDoc, isoCalls>>
  /\ UNCHANGED <<feedVars, reelAt, genVars, provVars, metaVars, reelCalls,
                 remVars>>

NextIsolate == Isolate \/ EditScope \/ EditSource

SpecIsolate == InitIsolate /\ [][NextIsolate]_vars

\* ------------------------------------------------ claims on the isolation
\* The scope of a call as it is now.
ScopeView == NodesOf(isoCalls[1].shadow)

\* The references of e are those of orig resolved against the base.
ResolvedFrom(e, orig, baseUrl) ==
  \A a \in DOMAIN orig.attrs \cap {"href", "src", "action", "data-src"} :
    /\ a \in DOMAIN e.attrs
    /\ e.attrs[a].abs
    /\ e.attrs[a] = IF orig.attrs[a].abs THEN orig.attrs[a]
                    ELSE Abs(baseUrl.depth, orig.attrs[a].file)

\* C13: after getSandboxedElement, every href, src, action and data-src of
\* every element in the scope, whatever its kind, is the value it had,
\* resolved against the directory of the base; none is left relative.
C13_EveryReferenceResolved ==
  (isoCalls # <<>> /\ edits = <<>>)
    => LET now == Descendants(ScopeView)
           was == Descendants(isoCalls[1].given)
       IN /\ Len(now) = Len(was)
          /\ \A k \in 1..Len(now) :
               ResolvedFrom(now[k], was[k], isoCalls[1].baseUrl)

\* The identities a sequence holds.
IdsIn(q) == {q[k] : k \in 1..Len(q)}

\* C14: the scope shares no node with what it was given; after the call the
\* source document is as it was before, its nodes in place with their
\* attributes; a later change of a scope node leaves the source document as
\* it was, and a later change of a node given or of the source document
\* leaves the scope as it was returned.
C14_ScopeSharesNoNode ==
  isoCalls # <<>>
    => /\ IdsIn(isoCalls[1].shadow) \cap IdsIn(isoCalls[1].contents) = {}
       /\ (\A k \in 1..Len(edits) : edits[k].of = "scope")
            => SourceView = isoCalls[1].before
       /\ (\A k \in 1..Len(edits) : edits[k].of = "source")
            => ScopeView = isoCalls[1].after

\* ------------------------------------- claims on the assets of a Reel read
\* The absolute location a reference of a document served at url stands for.
Target(ref, url) == IF ref.abs THEN ref ELSE Abs(url.depth, ref.file)

\* Node e of a Reel read from url is node orig of the document served, its
\* references made absolute.
SameNode(e, orig, url) ==
  /\ e.name = orig.name
  /\ DOMAIN e.attrs = DOMAIN orig.attrs
  /\ \A a \in DOMAIN orig.attrs :
       e.attrs[a] = IF a \in {"href", "src", "action", "data-src"}
                    THEN Target(orig.attrs[a], url)
                    ELSE orig.attrs[a]

\* The head of a Reel read holds exactly the nodes kept, in their order.
HeadIs(c, kept) ==
  /\ Len(reelCalls[c].result.head) = Len(kept)
  /\ \A k \in 1..Len(kept) :
       SameNode(reelCalls[c].result.head[k], kept[k], reelCalls[c].url)

IsStyleOrLink(e) == e.name = "STYLE" \/ e.name = "LINK"

\* C15 as stated: the head of a Reel read is, in document order, exactly the
\* style and link nodes of the served head that are not feed declarations.
C15_AssetsAreNonFeedNodes ==
  \A c \in 1..Len(reelCalls) :
    reelCalls[c].result.ok =>
      HeadIs(c, SelectSeq(reelAt[reelCalls[c].url].head,
                          LAMBDA e : IsStyleOrLink(e) /\ ~DeclaresFeed(e)))

\* A node has the href of one of the feed declarations of the document.
SharesFeedHref(e, url) ==
  /\ "href" \in DOMAIN e.attrs
  /\ \E k \in 1..Len(DeclaredFeeds(url)) :
       Target(DeclaredFeeds(url)[k].attrs.href, url)
         = Target(e.attrs.href, url)

\* C15 as amended: the head of a Reel read is, in document order, exactly
\* the style and link nodes of the served head whose href is not that of a
\* feed declaration of the document; besides the feed declarations, a link
\* that has the href of one is left out.
C15_AssetsAreNodesWithoutFeedHref ==
  \A c \in 1..Len(reelCalls) :
    reelCalls[c].result.ok =>
      HeadIs(c, SelectSeq(reelAt[reelCalls[c].url].head,
                  LAMBDA e : /\ IsStyleOrLink(e)
                             /\ ~SharesFeedHref(e, reelCalls[c].url)))

\* C15 witness: a Reel whose head holds a stylesheet, a link with the href
\* of a feed declaration, and that feed declaration, was read, and its head
\* is the stylesheet alone.
C15_Witness ==
  /\ Len(reelCalls) = 1
  /\ reelAt[reelCalls[1].url].head = <<LinkCss, LinkAlternate, LinkFeed>>
  /\ Len(reelCalls[1].result.head) = 1
  /\ reelCalls[1].result.head[1].attrs.rel = "stylesheet"

RECURSIVE ByteLength(_)
ByteLength(text) ==
  IF text = <<>> THEN 0
  ELSE (IF Head(text) = "U00E9" THEN 2 ELSE 1) + ByteLength(Tail(text))

\* C17: a read from byte 0 of a feed served as text/plain reports as
\* bytesRead the number of bytes of the whole body received, comments, blank
\* lines and newlines included, also when the body holds characters of more
\* than one byte.
C17_BytesReadIsByteLength ==
  \A k \in 1..Len(feedCalls) :
    (netOk /\ TypeIsPlain /\ feedCalls[k].startingByte = 0)
      => feedCalls[k].result.bytesRead = ByteLength(feedCalls[k].served)

\* ------------------------------- claims on the fetches of the poster stream
\* C18: whatever the consumer does, at most one Reel fetch of the stream is
\* in flight: one is in flight exactly while the body waits for it, each is
\* issued when none is in flight, and they are issued in listing order, no
\* item twice.
C18_OneReelFetchAtATime ==
  /\ inFlight \in {0, 1}
  /\ inFlight = 1 <=> genPc = "awaitReel"
  /\ \A k \in 1..Len(fetchLog) :
       /\ fetchLog[k].url = genUrls[fetchLog[k].idx]
       /\ k > 1 => fetchLog[k - 1].idx < fetchLog[k].idx

\* C18 witness: the consumer has asked three times without waiting, one
\* item has been yielded, and the fetch of the second item is in flight
\* with two requests unanswered.
C18_Witness ==
  /\ requests >= 3
  /\ queue >= 2
  /\ Yields(delivered) = 1
  /\ Len(fetchLog) = 2
  /\ inFlight = 1

\* ------------------- specification: the stream and the provider, side by side
\* getPostersFromFeed reads a feed to its end for a consumer that makes all
\* its requests; then getPoster of an Omniview made over the same listing
\* is asked for every index in turn.
InitAgree ==
  /\ NoDom
  /\ NoMeta
  /\ feedUrl = Abs(1, <<"f">>)
  /\ netOk = TRUE
  /\ contentType = <<"text/plain">>
  /\ resource \in FeedTexts
  /\ feedCalls = <<>>
  /\ growth = <<>>
  /\ reelAt \in [ItemLocs -> ReelOutcomes]
  /\ genPc = "start"
  /\ genUrls = <<>>
  /\ genI = 0
  /\ queue = 0
  /\ requests = 0
  /\ delivered = <<>>
  /\ fetchLog = <<>>
  /\ inFlight = 0
  /\ provUrls = GetFeedFromUrl(feedUrl, 0, netOk, contentType, resource).urls
  /\ provCalls = <<>>
  /\ provFetches = <<>>

\* getPoster is asked for the next index, up to the first one past the end.
PosterAtNext ==
  /\ genPc = "done"
  /\ queue = 0
  /\ requests = MaxRequests
  /\ Len(provCalls) <= Len(provUrls)
  /\ \A k \in 1..Len(provCalls) : provCalls[k].pc # "pending"
  /\ GetPosterAt(Len(provCalls))

NextAgree ==
  \/ ConsumerNext
  \/ GenStart
  \/ GenFeedResult
  \/ GenReelResult
  \/ GenResume
  \/ GenDone
  \/ PosterAtNext
  \/ PosterResolves

SpecAgree == InitAgree /\ [][NextAgree]_vars

\* ------------------------------ claims on the stream and the provider
\* The indices (from 1) of the listing items the stream yielded: those whose
\* fetch was followed by one more yield before the next fetch, or the end.
YieldedIdx ==
  {fetchLog[k].idx : k \in
     {k \in 1..Len(fetchLog) :
        IF k < Len(fetchLog)
        THEN fetchLog[k + 1].yields = fetchLog[k].yields + 1
        ELSE Yields(delivered) = fetchLog[k].yields + 1}}

\* What getPoster resolved with is a poster, not the placeholder.
IsRealPoster(value) == value.name # "#null" /\ value # ErrorPoster

\* C19: over the same listing and the same outcomes, the stream skipped an
\* item exactly when getPoster at its index resolved with the placeholder,
\* and the locations the stream yielded are those of the indices in range at
\* which getPoster gave a poster, in increasing order.
C19_StreamAgreesWithProvider ==
  genPc = "done"
    => /\ genUrls = provUrls
       /\ \A k \in 1..Len(provCalls) :
            (provCalls[k].pc = "resolved")
              => (IsRealPoster(provCalls[k].value)
                    <=> (provCalls[k].index + 1) \in YieldedIdx)
       /\ (/\ Len(provCalls) >= Len(provUrls)
           /\ \A k \in 1..Len(provUrls) :
                provCalls[k].index = k - 1 /\ provCalls[k].pc = "resolved")
            => LET real == SelectSeq([i \in 1..Len(provUrls) |-> i],
                             LAMBDA i : IsRealPoster(provCalls[i].value))
               IN YieldedUrls = [k \in 1..Len(real) |-> provUrls[real[k]]]

\* C19 witness: over a listing of three items the stream yielded the first
\* and the third, and getPoster gave a poster at 0 and 2 and the placeholder
\* at 1.
C19_Witness ==
  /\ genPc = "done"
  /\ Len(provUrls) = 3
  /\ Len(provCalls) >= 3
  /\ \A k \in 1..3 : provCalls[k].pc = "resolved"
  /\ IsRealPoster(provCalls[1].value)
  /\ provCalls[2].value = ErrorPoster
  /\ IsRealPoster(provCalls[3].value)
  /\ YieldedUrls = <<provUrls[1], provUrls[3]>>

\* ------------------------- specification: resolving the remote sections
\* An element of the container: an element with the identity of its node.
Node(key, name, attrs, kids) ==
  [key |-> key, name |-> name, attrs |-> attrs, kids |-> kids]

\* The kinds of children the containers of the model are made of.
ItemKinds == {"src", "data", "empty", "both", "plain", "wrapped", "nested"}

\* The child of a kind at position p; its node has the identity 10 p, and
\* the node it holds, if any, 10 p + 1.
Item(kind, p) ==
  CASE kind = "src" ->
         Node(10 * p, "SECTION", [src |-> Rel(<<"a">>)], <<>>)
    [] kind = "data" ->
         Node(10 * p, "SECTION", ("data-src" :> Abs(1, <<"a">>)), <<>>)
    [] kind = "empty" ->
         Node(10 * p, "SECTION", [src |-> Rel(<<>>)], <<>>)
    [] kind = "both" ->
         Node(10 * p, "SECTION",
              ("src" :> Rel(<<>>) @@ "data-src" :> Rel(<<"a">>)), <<>>)
    [] kind = "plain" ->
         Node(10 * p, "SECTION", [id |-> "s"], <<>>)
    [] kind = "wrapped" ->
         Node(10 * p, "DIV", NoAttrs,
              <<Node(10 * p + 1, "SECTION", [src |-> Rel(<<"a">>)], <<>>)>>)
    [] OTHER ->
         Node(10 * p, "SECTION", [src |-> Rel(<<"a">>)],
              <<Node(10 * p + 1, "SECTION",
                     ("data-src" :> Abs(1, <<"a">>)), <<>>)>>)

Containers ==
  {[p \in 1..Len(ks) |-> Item(ks[p], p)] :
     ks \in UNION {[1..n -> ItemKinds] : n \in 0..MaxNodes}}

\* The locations the sources of the model's remote sections resolve to.
RemoteLocs == {Abs(0, <<"a">>), Abs(1, <<"a">>)}

InitRemote ==
  /\ NoFeed
  /\ IdleStream
  /\ NoProvider
  /\ NoMeta
  /\ NoReelRead
  /\ NoIsolation
  /\ reelAt \in [RemoteLocs -> ReelOutcomes]
  /\ documentUrl \in {CurrentUrl, Abs(1, <<"p">>)}
  /\ container \in Containers
  /\ remStart = <<>>
  /\ remSections = <<>>
  /\ remI = 0
  /\ remPc = "idle"
  /\ remFetches = <<>>
  /\ remInFlight = 0

\* "SECTION[src], SECTION[data-src]"
IsRemoteSection(e) ==
  e.name = "SECTION" /\ (HasAttr(e, "src") \/ HasAttr(e, "data-src"))

\* getRemoteSectionElements
GetRemoteSectionElements(tree) ==
  SelectSeq(Descendants(tree), IsRemoteSection)

\* getRemoteSectionSource
GetRemoteSectionSource(section, docUrl) ==
  LET src == IF ~IsEmptyRef(RefAttr(section, "src"))
             THEN RefAttr(section, "src")
             ELSE RefAttr(section, "data-src")
  IN IF IsEmptyRef(src) THEN Rel(<<>>) ELSE Resolve(src, docUrl)

\* Removed that leaves the node where it is.
NotRemoved(tree, key) == tree

\* remoteSection.remove(): the node leaves its parent; nothing changes in
\* the tree when the node is not in it.
RECURSIVE Removed(_, _)
Removed(tree, key) ==
  LET kept == SelectSeq(tree, LAMBDA e : e.key # key)
  IN [k \in 1..Len(kept) |->
        [kept[k] EXCEPT !.kids = Removed(@, key)]]

\* The node of the poster made for the section with an identity.
PosterNode(poster, key) ==
  [key |-> 0 - key, name |-> poster.name, attrs |-> poster.attrs,
   kids |-> poster.kids, shadow |-> poster.shadow]

\* remoteSection.replaceWith(poster): the poster takes the node's place;
\* nothing changes in the tree when the node is not in it.
RECURSIVE Replaced(_, _, _)
Replaced(tree, key, new) ==
  [k \in 1..Len(tree) |->
     IF tree[k].key = key THEN new
     ELSE [tree[k] EXCEPT !.kids = Replaced(@, key, new)]]

\* The loop from section i up to its next await: the sections without a
\* source are removed on the way.
RECURSIVE RunToAwait(_, _, _, _)
RunToAwait(tree, secs, i, docUrl) ==
  IF i > Len(secs) THEN [container |-> tree, i |-> i]
  ELSE IF IsEmptyRef(GetRemoteSectionSource(secs[i], docUrl))
       THEN RunToAwait(Removed(tree, secs[i].key), secs, i + 1, docUrl)
       ELSE [container |-> tree, i |-> i]

\* The call stands at section r.i: the poster fetch for it is issued, or,
\* past the last section, the call returns.
Proceed(r, secs, fl) ==
  /\ container' = r.container
  /\ remI' = r.i
  /\ IF r.i > Len(secs)
     THEN /\ remPc' = "done"
          /\ remFetches' = remFetches
          /\ remInFlight' = fl
     ELSE /\ remPc' = "await"
          /\ remFetches' = Append(remFetches,
               [key |-> secs[r.i].key,
                url |-> GetRemoteSectionSource(secs[r.i], documentUrl)])
          /\ remInFlight' = fl + 1

\* resolveRemoteSections(container, documentUrl) is called.
RemCall ==
  /\ remPc = "idle"
  /\ LET secs == GetRemoteSectionElements(container)
     IN /\ remSections' = secs
        /\ remStart' = container
        /\ Proceed(RunToAwait(container, secs, 1, documentUrl), secs,
                   remInFlight)
  /\ UNCHANGED <<documentUrl, feedVars, reelAt, genVars, provVars, metaVars,
                 reelCalls, isoVars>>

\* getPosterFromUrl resolves: the section is replaced with the poster, or
\* removed; the loop goes on.
RemPosterResolves ==
  /\ remPc = "await"
  /\ LET section == remSections[remI]
         remoteUrl == GetRemoteSectionSource(section, documentUrl)
         poster == GetPosterFromUrl(remoteUrl, OutcomeAt(remoteUrl))
         tree == IF IsNull(poster) THEN Removed(container, section.key)
                 ELSE Replaced(container, section.key,
                               PosterNode(poster, section.key))
     IN Proceed(RunToAwait(tree, remSections, remI + 1, documentUrl),
                remSections, remInFlight - 1)
  /\ UNCHANGED <<documentUrl, remStart, remSections, feedVars, reelAt,
                 genVars, provVars, metaVars, reelCalls, isoVars>>

NextRemote == RemCall \/ RemPosterResolves

SpecRemote == InitRemote /\ [][NextRemote]_vars

\* ------------------------------------------ claims on the remote sections
\* The remote sections of the container as resolveRemoteSections found it,
\* in document order.
StartRemote ==
  SelectSeq(Descendants(remStart),
            LAMBDA e : e.name = "SECTION"
                       /\ ({"src", "data-src"} \cap DOMAIN e.attrs) # {})

\* Whether a remote section names a source, and the location it names.
NamesSource(e) ==
  \E a \in {"src", "data-src"} \cap DOMAIN e.attrs : e.attrs[a] # Rel(<<>>)

SourceOf(e) ==
  LET ref == IF "src" \in DOMAIN e.attrs /\ e.attrs.src # Rel(<<>>)
             THEN e.attrs.src ELSE e.attrs["data-src"]
  IN IF ref.abs THEN ref ELSE Abs(documentUrl.depth, ref.file)

\* The poster of a remote section can be read: it names a source, at which
\* a Reel with a section is found.
CanRead(e) ==
  /\ NamesSource(e)
  /\ SourceOf(e) \in DOMAIN reelAt
  /\ reelAt[SourceOf(e)].ok
  /\ \E k \in 1..Len(reelAt[SourceOf(e)].body) :
       reelAt[SourceOf(e)].body[k].name = "SECTION"

\* The identities of the nodes in a tree.
KeysIn(tree) == {Descendants(tree)[k].key : k \in 1..Len(Descendants(tree))}

\* A tree with each remote section that is not inside another one replaced
\* by its poster when that can be read, and taken out otherwise; everything
\* else is as it was.
RECURSIVE Resolved(_)
Resolved(tree) ==
  IF tree = <<>> THEN <<>>
  ELSE LET e == Head(tree)
           remote == e.name = "SECTION"
                     /\ ({"src", "data-src"} \cap DOMAIN e.attrs) # {}
       IN (IF remote
           THEN IF CanRead(e)
                THEN <<PosterNode(GetPosterFromUrl(SourceOf(e),
                                                   reelAt[SourceOf(e)]),
                                  e.key)>>
                ELSE <<>>
           ELSE <<[e EXCEPT !.kids = Resolved(@)]>>)
          \o Resolved(Tail(tree))

\* The poster fetches are made one at a time, for the remote sections that
\* name a source, in document order.
FetchesInOrder ==
  /\ remInFlight \in {0, 1}
  /\ remPc = "done" =>
       LET named == SelectSeq(StartRemote, NamesSource)
       IN /\ remInFlight = 0
          /\ Len(remFetches) = Len(named)
          /\ \A k \in 1..Len(named) : remFetches[k].key = named[k].key

\* C20 as stated: after resolveRemoteSections no remote section of the
\* start is in the container; the poster of each one is in it exactly when
\* that poster can be read; everything else is unchanged and in place; the
\* fetches are made one at a time in document order.
C20_EachRemoteSectionResolved ==
  /\ FetchesInOrder
  /\ remPc = "done" =>
       /\ \A k \in 1..Len(StartRemote) :
            /\ StartRemote[k].key \notin KeysIn(container)
            /\ CanRead(StartRemote[k])
                 <=> (0 - StartRemote[k].key) \in KeysIn(container)
       /\ container = Resolved(remStart)

\* The remote sections of the start that are inside another remote section.
InsideRemote ==
  UNION {KeysIn(StartRemote[k].kids) : k \in 1..Len(StartRemote)}

\* C20 as amended: the same, the poster of a remote section being in the
\* container exactly when it can be read and the section is not inside
\* another remote section; one that is inside another leaves with it.
C20_OutermostRemoteSectionsResolved ==
  /\ FetchesInOrder
  /\ remPc = "done" =>
       /\ \A k \in 1..Len(StartRemote) :
            /\ StartRemote[k].key \notin KeysIn(container)
            /\ (CanRead(StartRemote[k])
                  /\ StartRemote[k].key \notin InsideRemote)
                 <=> (0 - StartRemote[k].key) \in KeysIn(container)
       /\ container = Resolved(remStart)

\* C20 witness: of two remote sections the first was replaced by its
\* poster and the second, whose poster cannot be read, was removed, after
\* two fetches.
C20_Witness ==
  /\ remPc = "done"
  /\ remStart = <<Item("src", 1), Item("data", 2)>>
  /\ Len(remFetches) = 2
  /\ Len(container) = 1
  /\ container[1].key = -10

====
